---- MODULE Spec2Model ----
(***************************************************************************)
(* numl: central-difference derivative (derivative) and one quasi-Newton   *)
(* step (nqn) over IEEE-754 binary64 values (Rust f64).                    *)
(*                                                                         *)
(* f64 arithmetic is modelled bit-exactly: a finite value is               *)
(* (-1)^s * m * 2^e with m a natural number of at most 53 bits, stored as  *)
(* a little-endian sequence of 15-bit limbs, rounded to nearest, ties to   *)
(* even, with subnormals, signed zeros, infinities and NaN.                *)
(***************************************************************************)
EXTENDS Integers, Sequences, FiniteSets, TLC

(***************************************************************************)
(* Natural numbers of arbitrary size: little-endian limbs, base 2^15, no   *)
(* leading zero limb; zero is <<>>.                                        *)
(***************************************************************************)
LimbBits == 15

Base == 2^LimbBits

Limbs == Seq(0..(Base - 1))

Limb(a, i) == IF i <= Len(a) THEN a[i] ELSE 0

BNorm[a \in Limbs] ==
    IF a = <<>> THEN <<>>
    ELSE IF a[Len(a)] # 0 THEN a
    ELSE BNorm[SubSeq(a, 1, Len(a) - 1)]

BFromInt[n \in Nat] ==
    IF n = 0 THEN <<>> ELSE <<n % Base>> \o BFromInt[n \div Base]

BAddC[a \in Limbs, b \in Limbs, i \in Nat, c \in Nat] ==
    IF i > Len(a) /\ i > Len(b)
    THEN (IF c = 0 THEN <<>> ELSE <<c>>)
    ELSE <<(Limb(a, i) + Limb(b, i) + c) % Base>>
         \o BAddC[a, b, i + 1, (Limb(a, i) + Limb(b, i) + c) \div Base]

BAdd[a \in Limbs, b \in Limbs] == BAddC[a, b, 1, 0]

\* a - b for a >= b, from limb i on with borrow c
BSubC[a \in Limbs, b \in Limbs, i \in Nat, c \in Nat] ==
    IF i > Len(a) THEN <<>>
    ELSE IF a[i] - Limb(b, i) - c < 0
         THEN <<a[i] - Limb(b, i) - c + Base>> \o BSubC[a, b, i + 1, 1]
         ELSE <<a[i] - Limb(b, i) - c>> \o BSubC[a, b, i + 1, 0]

BSub[a \in Limbs, b \in Limbs] == BNorm[BSubC[a, b, 1, 0]]

BCmpFrom[a \in Limbs, b \in Limbs, i \in Nat] ==
    IF i = 0 THEN 0
    ELSE IF a[i] > b[i] THEN 1
    ELSE IF a[i] < b[i] THEN -1
    ELSE BCmpFrom[a, b, i - 1]

\* -1, 0, 1 as a < b, a = b, a > b
BCmp[a \in Limbs, b \in Limbs] ==
    IF Len(a) > Len(b) THEN 1
    ELSE IF Len(a) < Len(b) THEN -1
    ELSE BCmpFrom[a, b, Len(a)]

BMulSmallC[a \in Limbs, k \in Nat, i \in Nat, c \in Nat] ==
    IF i > Len(a) THEN (IF c = 0 THEN <<>> ELSE <<c>>)
    ELSE <<(a[i] * k + c) % Base>>
         \o BMulSmallC[a, k, i + 1, (a[i] * k + c) \div Base]

\* a * k for 0 <= k <= Base
BMulSmall[a \in Limbs, k \in Nat] ==
    IF k = 0 THEN <<>> ELSE BMulSmallC[a, k, 1, 0]

BShlLimbs[a \in Limbs, n \in Nat] ==
    IF a = <<>> THEN <<>> ELSE [i \in 1..n |-> 0] \o a

BMulFrom[a \in Limbs, b \in Limbs, i \in Nat] ==
    IF i > Len(b) THEN <<>>
    ELSE BAdd[BShlLimbs[BMulSmall[a, b[i]], i - 1], BMulFrom[a, b, i + 1]]

BMul[a \in Limbs, b \in Limbs] == BMulFrom[a, b, 1]

\* a * 2^n
BShl[a \in Limbs, n \in Nat] ==
    BShlLimbs[BMulSmall[a, 2^(n % LimbBits)], n \div LimbBits]

\* floor(a / 2^n)
BShr[a \in Limbs, n \in Nat] ==
    LET d == n \div LimbBits
        lo == 2^(n % LimbBits)
        hi == 2^(LimbBits - (n % LimbBits))
    IN  IF d >= Len(a) THEN <<>>
        ELSE BNorm[[i \in 1..(Len(a) - d) |->
                 (a[i + d] \div lo) + (Limb(a, i + d + 1) % lo) * hi]]

\* bit i of a, bit 0 the lowest
BBit[a \in Limbs, i \in Nat] ==
    (Limb(a, (i \div LimbBits) + 1) \div 2^(i % LimbBits)) % 2

\* whether any of the n lowest bits of a is set
BLowNonzero[a \in Limbs, n \in Nat] ==
    \/ \E i \in 1..(n \div LimbBits) : Limb(a, i) # 0
    \/ Limb(a, (n \div LimbBits) + 1) % 2^(n % LimbBits) # 0

SmallBitLen[v \in Nat] ==
    CHOOSE k \in 0..LimbBits : v < 2^k /\ (k = 0 \/ v >= 2^(k - 1))

BBitLen[a \in Limbs] ==
    IF a = <<>> THEN 0 ELSE LimbBits * (Len(a) - 1) + SmallBitLen[a[Len(a)]]

\* the largest digit k + j, j below 2 * bit, with d * (k + j) <= r
QDigit[r \in Limbs, d \in Limbs, k \in Nat, bit \in Nat] ==
    IF bit = 0 THEN k
    ELSE IF BCmp[BMulSmall[d, k + bit], r] <= 0
         THEN QDigit[r, d, k + bit, bit \div 2]
         ELSE QDigit[r, d, k, bit \div 2]

\* one limb of the long division: the remainder r2 so far and the quotient
\* q so far, extended by the digit k
BDivDigit[d \in Limbs, q \in Limbs, r2 \in Limbs, k \in Nat] ==
    <<<<k>> \o q, BSub[r2, BMulSmall[d, k]]>>

\* long division, one limb of n at a time from limb i down; qr is
\* <<quotient, remainder>> so far
BDivStep[n \in Limbs, d \in Limbs, i \in Nat, qr \in Seq(Seq(Nat))] ==
    IF i = 0 THEN <<BNorm[qr[1]], qr[2]>>
    ELSE BDivStep[n, d, i - 1,
             BDivDigit[d, qr[1], BNorm[<<n[i]>> \o qr[2]],
                       QDigit[BNorm[<<n[i]>> \o qr[2]], d, 0, Base \div 2]]]

\* <<floor(n / d), n mod d>>
BDivMod[n \in Limbs, d \in Limbs] == BDivStep[n, d, Len(n), <<<<>>, <<>>>>]

BCube[c \in Limbs] == BMul[BMul[c, c], c]

\* the largest digit k + j, j below 2 * bit, with (hi * Base + k + j) * Base^pos
\* cubed at most n
CbrtDigit[n \in Limbs, hi \in Limbs, pos \in Nat, k \in Nat, bit \in Nat] ==
    IF bit = 0 THEN k
    ELSE IF BCmp[BCube[BShlLimbs[BNorm[<<k + bit>> \o hi], pos]], n] <= 0
         THEN CbrtDigit[n, hi, pos, k + bit, bit \div 2]
         ELSE CbrtDigit[n, hi, pos, k, bit \div 2]

BCbrtStep[n \in Limbs, pos \in Int, hi \in Limbs] ==
    IF pos < 0 THEN hi
    ELSE BCbrtStep[n, pos - 1,
                   BNorm[<<CbrtDigit[n, hi, pos, 0, Base \div 2]>> \o hi]]

\* floor of the cube root of n
BCbrt[n \in Limbs] == BCbrtStep[n, Len(n) \div 3, <<>>]

(***************************************************************************)
(* f64: IEEE-754 binary64.  NaN is one value (payloads are not observable  *)
(* through the arithmetic used here).  A finite value is canonical: either *)
(* m has exactly Precision bits and e >= EMin, or e = EMin and m has fewer *)
(* (a subnormal, or zero with m = <<>>).  The operations are functions on  *)
(* F64, so that an operand is a value, computed once.                      *)
(***************************************************************************)
Precision == 53

EMin == -1074

EMax == 971

F64 == [k : {"nan", "inf", "fin"}, s : {0, 1}, m : Limbs, e : Int]

NaN == [k |-> "nan", s |-> 0, m |-> <<>>, e |-> 0]

Inf(s) == [k |-> "inf", s |-> s, m |-> <<>>, e |-> 0]

Zero(s) == [k |-> "fin", s |-> s, m |-> <<>>, e |-> EMin]

IsNaN(a) == a.k = "nan"

IsInf(a) == a.k = "inf"

IsZero(a) == a.k = "fin" /\ a.m = <<>>

Xor(s, t) == IF s = t THEN 0 ELSE 1

\* (-1)^s * q * 2^e, q of at most Precision + 1 bits, as a value (or an
\* infinity past the largest exponent)
Pack[s \in {0, 1}, q \in Limbs, e \in Int] ==
    IF BBitLen[q] > Precision
    THEN (IF e + 1 > EMax THEN Inf(s)
          ELSE [k |-> "fin", s |-> s, m |-> BShr[q, 1], e |-> e + 1])
    ELSE (IF e > EMax THEN Inf(s)
          ELSE [k |-> "fin", s |-> s, m |-> q, e |-> e])

\* m with its sh lowest bits rounded away, to nearest, ties to even
RoundShift[m \in Limbs, sh \in Nat, sticky \in BOOLEAN] ==
    IF /\ BBit[m, sh - 1] = 1
       /\ (sticky \/ BLowNonzero[m, sh - 1] \/ BBit[m, sh] = 1)
    THEN BAdd[BShr[m, sh], <<1>>]
    ELSE BShr[m, sh]

\* the exponent of the last place of a value of bit length len whose lowest
\* bit has exponent e
LastPlace[e \in Int, len \in Nat] ==
    IF e + len - Precision > EMin THEN e + len - Precision ELSE EMin

\* (-1)^s * (m + fraction) * 2^e rounded to nearest, ties to even; sticky says
\* that a nonzero fraction below one unit of m was dropped
Round[s \in {0, 1}, m \in Limbs, e \in Int, sticky \in BOOLEAN] ==
    IF m = <<>> THEN Zero(s)
    ELSE IF LastPlace[e, BBitLen[m]] <= e
    THEN Pack[s, BShl[m, e - LastPlace[e, BBitLen[m]]], LastPlace[e, BBitLen[m]]]
    ELSE Pack[s, RoundShift[m, LastPlace[e, BBitLen[m]] - e, sticky],
              LastPlace[e, BBitLen[m]]]

\* an f64 literal that is a small integer times a power of two
Lit(s, n, e) == Round[s, BFromInt[n], e, FALSE]

FNeg[a \in F64] == IF IsNaN(a) THEN a ELSE [a EXCEPT !.s = 1 - a.s]

FAbs[a \in F64] == IF IsNaN(a) THEN a ELSE [a EXCEPT !.s = 0]

\* magnitudes of two canonical finite values: -1, 0, 1
MagCmp[a \in F64, b \in F64] ==
    IF a.m = <<>> \/ b.m = <<>>
    THEN (IF a.m = b.m THEN 0 ELSE IF a.m = <<>> THEN -1 ELSE 1)
    ELSE IF a.e > b.e THEN 1
    ELSE IF a.e < b.e THEN -1
    ELSE BCmp[a.m, b.m]

\* a == b
FEq[a \in F64, b \in F64] ==
    /\ ~IsNaN(a) /\ ~IsNaN(b)
    /\ \/ a = b
       \/ IsZero(a) /\ IsZero(b)

\* magnitudes of two values that are not NaN: -1, 0, 1
AbsCmp[a \in F64, b \in F64] ==
    IF IsInf(a) THEN (IF IsInf(b) THEN 0 ELSE 1)
    ELSE IF IsInf(b) THEN -1
    ELSE MagCmp[a, b]

\* a < b
FLt[a \in F64, b \in F64] ==
    /\ ~IsNaN(a) /\ ~IsNaN(b)
    /\ ~FEq[a, b]
    /\ IF a.s # b.s THEN a.s = 1
       ELSE IF a.s = 0 THEN AbsCmp[a, b] < 0 ELSE AbsCmp[a, b] > 0

\* a > b
FGt[a \in F64, b \in F64] == FLt[b, a]

\* big + sml for finite nonzero values, big.e >= sml.e, mb the mantissa of
\* big at sml's exponent
AddAligned[big \in F64, sml \in F64, mb \in Limbs] ==
    IF big.s = sml.s THEN Round[big.s, BAdd[mb, sml.m], sml.e, FALSE]
    ELSE IF BCmp[mb, sml.m] = 0 THEN Zero(0)
    ELSE IF BCmp[mb, sml.m] > 0 THEN Round[big.s, BSub[mb, sml.m], sml.e, FALSE]
    ELSE Round[sml.s, BSub[sml.m, mb], sml.e, FALSE]

\* big + sml for finite nonzero values, big.e >= sml.e
AddOrdered[big \in F64, sml \in F64] ==
    IF big.e - sml.e > Precision + 3
    THEN \* sml is below a quarter of big's last place: it only decides the
         \* direction of rounding
         IF big.s = sml.s
         THEN Round[big.s, BShl[big.m, 3], big.e - 3, TRUE]
         ELSE Round[big.s, BSub[BShl[big.m, 3], <<1>>], big.e - 3, TRUE]
    ELSE AddAligned[big, sml, BShl[big.m, big.e - sml.e]]

\* the sum of two finite values
AddFin[a \in F64, b \in F64] ==
    IF a.m = <<>> /\ b.m = <<>> THEN Zero(IF a.s = 1 /\ b.s = 1 THEN 1 ELSE 0)
    ELSE IF a.m = <<>> THEN b
    ELSE IF b.m = <<>> THEN a
    ELSE IF a.e >= b.e THEN AddOrdered[a, b]
    ELSE AddOrdered[b, a]

\* a + b
FAdd[a \in F64, b \in F64] ==
    IF IsNaN(a) \/ IsNaN(b) THEN NaN
    ELSE IF IsInf(a) THEN (IF IsInf(b) /\ a.s # b.s THEN NaN ELSE a)
    ELSE IF IsInf(b) THEN b
    ELSE AddFin[a, b]

\* a - b
FSub[a \in F64, b \in F64] == FAdd[a, FNeg[b]]

\* a * b
FMul[a \in F64, b \in F64] ==
    IF IsNaN(a) \/ IsNaN(b) THEN NaN
    ELSE IF IsInf(a) \/ IsInf(b)
    THEN (IF IsZero(a) \/ IsZero(b) THEN NaN ELSE Inf(Xor(a.s, b.s)))
    ELSE Round[Xor(a.s, b.s), BMul[a.m, b.m], a.e + b.e, FALSE]

\* the left shift that gives a numerator of bit length la, over a denominator
\* of bit length lb, a quotient of Precision + 2 bits or more
DivShift[la \in Nat, lb \in Nat] ==
    IF lb + Precision + 2 > la THEN lb + Precision + 2 - la ELSE 0

\* the quotient <<q, r>> = BDivMod of a.m * 2^sh by b.m, rounded: the
\* remainder is the sticky bit
DivRound[s \in {0, 1}, e \in Int, qr \in Seq(Limbs)] ==
    Round[s, qr[1], e, qr[2] # <<>>]

\* a / b for finite nonzero a and b
DivFin[a \in F64, b \in F64] ==
    DivRound[Xor(a.s, b.s),
             a.e - b.e - DivShift[BBitLen[a.m], BBitLen[b.m]],
             BDivMod[BShl[a.m, DivShift[BBitLen[a.m], BBitLen[b.m]]], b.m]]

\* a / b
FDiv[a \in F64, b \in F64] ==
    IF IsNaN(a) \/ IsNaN(b) THEN NaN
    ELSE IF IsInf(a) THEN (IF IsInf(b) THEN NaN ELSE Inf(Xor(a.s, b.s)))
    ELSE IF IsInf(b) THEN Zero(Xor(a.s, b.s))
    ELSE IF IsZero(b) THEN (IF IsZero(a) THEN NaN ELSE Inf(Xor(a.s, b.s)))
    ELSE IF IsZero(a) THEN Zero(Xor(a.s, b.s))
    ELSE DivFin[a, b]

\* the left shift k of a mantissa of bit length len at exponent e that makes
\* e - k a multiple of 3 and the cube root at least Precision + 2 bits long
CbrtShift[e \in Int, len \in Nat] ==
    IF 3 * (Precision + 2) > len
    THEN 3 * (Precision + 2) - len + ((e - (3 * (Precision + 2) - len)) % 3)
    ELSE e % 3

\* c = floor(cbrt(n)) rounded; the sticky bit says that c is not exact
CbrtRound[s \in {0, 1}, n \in Limbs, c \in Limbs, e \in Int] ==
    Round[s, c, e, BCube[c] # n]

CbrtScaled[s \in {0, 1}, n \in Limbs, e \in Int] ==
    CbrtRound[s, n, BCbrt[n], e]

\* f64::cbrt: the cube root, correctly rounded
FCbrt[a \in F64] ==
    IF IsNaN(a) \/ IsInf(a) \/ IsZero(a) THEN a
    ELSE CbrtScaled[a.s, BShl[a.m, CbrtShift[a.e, BBitLen[a.m]]],
                    (a.e - CbrtShift[a.e, BBitLen[a.m]]) \div 3]

(***************************************************************************)
(* The literals and constants of src/lib.rs.                               *)
(***************************************************************************)
\* a decimal literal n/d (d a power of ten): the nearest f64
Dec(s, n, d) == FDiv[Lit(s, n, 0), Lit(0, d, 0)]

\* f64::EPSILON = 2^-52
EPSILON == Lit(0, 1, -52)

\* f64::cbrt(f64::EPSILON)
CbrtEpsilon == FCbrt[EPSILON]

\* 0.0 and 2.0
FZero == Zero(0)

FTwo == Lit(0, 2, 0)

\* 0.4, the constant term of sample_cubic
ZeroPointFour == Dec(0, 4, 10)

(***************************************************************************)
(* Result<f64, NumlError>                                                  *)
(***************************************************************************)
NumlError == {"TypError", "DerivativeZeroError"}

Ok(v) == [tag |-> "Ok", val |-> v]

Err(e) == [tag |-> "Err", err |-> e]

IsOk(r) == r.tag = "Ok"

IsErr(r, e) == r.tag = "Err" /\ r.err = e

(***************************************************************************)
(* The functions passed as f: fn(f64) -> f64.  sample_cubic is the tests'; *)
(* the others are callers' functions: a constant, the identity, a square.  *)
(***************************************************************************)
sample_cubic(x) ==
    FSub[FAdd[FMul[FMul[x, x], x], FMul[FMul[FTwo, x], x]], ZeroPointFour]

Functions == {"sample_cubic", "constant", "identity", "square"}

ConstantValue == Lit(0, 3, 0)

Apply[f \in Functions, x \in F64] ==
    CASE f = "sample_cubic" -> sample_cubic(x)
      [] f = "constant" -> ConstantValue
      [] f = "identity" -> x
      [] f = "square" -> FMul[x, x]

(***************************************************************************)
(* derivative and nqn.  Each returns the Result together with what the     *)
(* call did on the way: the points at which it evaluated f, in order, and  *)
(* the step h it chose.                                                    *)
(***************************************************************************)
NoStep == [k |-> "unset", s |-> 0, m |-> <<>>, e |-> 0]

Results == {Err(e) : e \in NumlError} \cup [tag : {"Ok"}, val : F64]

Outcomes == [res : Results, evals : Seq(F64), h : F64 \cup {NoStep}]

\* StepSize comparing against typ instead of typ.abs()
StepSize_signed_compare(x, typ) ==
    IF FGt[FAbs[x], typ] THEN FMul[CbrtEpsilon, x]
                         ELSE FMul[CbrtEpsilon, typ]

\* StepSize scaling by EPSILON instead of its cube root
StepSize_eps(x, typ) ==
    IF FGt[FAbs[x], FAbs[typ]] THEN FMul[EPSILON, x]
                               ELSE FMul[EPSILON, typ]

\* StepSize taking typ.abs() in the second case
StepSize_abs(x, typ) ==
    IF FGt[FAbs[x], FAbs[typ]] THEN FMul[CbrtEpsilon, x]
                               ELSE FMul[CbrtEpsilon, FAbs[typ]]

\* let h = if x.abs() > typ.abs() { cbrt(EPSILON)*x } else { cbrt(EPSILON)*typ }
StepSize(x, typ) ==
    IF FGt[FAbs[x], FAbs[typ]] THEN FMul[CbrtEpsilon, x]
                               ELSE FMul[CbrtEpsilon, typ]

\* (f(a) - f(b))/(2.0*h) with a = x+h and b = x-h, f(a) evaluated first
CentralDifference[f \in Functions, a \in F64, b \in F64, h \in F64] ==
    [res |-> Ok(FDiv[FSub[Apply[f, a], Apply[f, b]], FMul[FTwo, h]]),
     evals |-> <<a, b>>,
     h |-> h]

\* Ok((f(x+h) - f(x-h))/(2.0*h)) with the step h
Differentiate[f \in Functions, x \in F64, h \in F64] ==
    CentralDifference[f, FAdd[x, h], FSub[x, h], h]

\* derivative rejecting every typ that is not positive
derivative_typ_positive(f, x, typ) ==
    IF ~FGt[typ, FZero]
    THEN [res |-> Err("TypError"), evals |-> <<>>, h |-> NoStep]
    ELSE Differentiate[f, x, StepSize(x, typ)]

\* derivative checking typ only after the central difference is computed
ErrAfter[d \in Outcomes] == [d EXCEPT !.res = Err("TypError")]

derivative_check_last(f, x, typ) ==
    IF FEq[typ, FZero]
    THEN ErrAfter[Differentiate[f, x, StepSize(x, typ)]]
    ELSE Differentiate[f, x, StepSize(x, typ)]

derivative(f, x, typ) ==
    IF FEq[typ, FZero]
    THEN [res |-> Err("TypError"), evals |-> <<>>, h |-> NoStep]
    ELSE Differentiate[f, x, StepSize(x, typ)]

\* match d { Ok(0.0) => return Err(DerivativeZeroError), Ok(g) => g,
\*           Err(g) => return Err(g) }; Ok(x - f(x)/computed_derivative)
NewtonStep[f \in Functions, x \in F64, d \in Outcomes] ==
    IF IsOk(d.res) /\ FEq[d.res.val, FZero]
    THEN [d EXCEPT !.res = Err("DerivativeZeroError")]
    ELSE IF IsOk(d.res)
    THEN [d EXCEPT !.res = Ok(FSub[x, FDiv[Apply[f, x], d.res.val]]),
                   !.evals = Append(d.evals, x)]
    ELSE d

\* nqn reporting every failure of derivative as DerivativeZeroError
NewtonStep_reclassify[f \in Functions, x \in F64, d \in Outcomes] ==
    IF IsOk(d.res) /\ ~FEq[d.res.val, FZero]
    THEN [d EXCEPT !.res = Ok(FSub[x, FDiv[Apply[f, x], d.res.val]]),
                   !.evals = Append(d.evals, x)]
    ELSE [d EXCEPT !.res = Err("DerivativeZeroError")]

nqn_reclassify(f, x, typ) == NewtonStep_reclassify[f, x, derivative(f, x, typ)]

\* nqn without the check for a zero derivative
NewtonStep_unchecked[f \in Functions, x \in F64, d \in Outcomes] ==
    IF IsOk(d.res)
    THEN [d EXCEPT !.res = Ok(FSub[x, FDiv[Apply[f, x], d.res.val]]),
                   !.evals = Append(d.evals, x)]
    ELSE d

nqn_unchecked(f, x, typ) == NewtonStep_unchecked[f, x, derivative(f, x, typ)]

\* nqn adding f(x)/derivative instead of subtracting it
NewtonStep_plus[f \in Functions, x \in F64, d \in Outcomes] ==
    IF IsOk(d.res) /\ FEq[d.res.val, FZero]
    THEN [d EXCEPT !.res = Err("DerivativeZeroError")]
    ELSE IF IsOk(d.res)
    THEN [d EXCEPT !.res = Ok(FAdd[x, FDiv[Apply[f, x], d.res.val]]),
                   !.evals = Append(d.evals, x)]
    ELSE d

nqn_plus(f, x, typ) == NewtonStep_plus[f, x, derivative(f, x, typ)]

\* nqn evaluating f(x) before it looks at the derivative
NewtonStep_eval_first[f \in Functions, x \in F64, d \in Outcomes] ==
    IF IsOk(d.res) /\ FEq[d.res.val, FZero]
    THEN [d EXCEPT !.res = Err("DerivativeZeroError"),
                   !.evals = Append(d.evals, x)]
    ELSE IF IsOk(d.res)
    THEN [d EXCEPT !.res = Ok(FSub[x, FDiv[Apply[f, x], d.res.val]]),
                   !.evals = Append(d.evals, x)]
    ELSE d

nqn_eval_first(f, x, typ) == NewtonStep_eval_first[f, x, derivative(f, x, typ)]

\* nqn stepping by f(x) without dividing by the derivative
NewtonStep_undivided[f \in Functions, x \in F64, d \in Outcomes] ==
    IF IsOk(d.res) /\ FEq[d.res.val, FZero]
    THEN [d EXCEPT !.res = Err("DerivativeZeroError")]
    ELSE IF IsOk(d.res)
    THEN [d EXCEPT !.res = Ok(FSub[x, Apply[f, x]]),
                   !.evals = Append(d.evals, x)]
    ELSE d

nqn_undivided(f, x, typ) == NewtonStep_undivided[f, x, derivative(f, x, typ)]

nqn(f, x, typ) == NewtonStep[f, x, derivative(f, x, typ)]

(***************************************************************************)
(* The inputs of a call: x and typ range over the halves k/2, k up to      *)
(* MaxK, of either sign (the zeros included), the two smallest subnormals, *)
(* the infinities and NaN.                                                 *)
(***************************************************************************)
MaxK == 2

Grid == {Lit(s, k, -1) : s \in {0, 1}, k \in 0..MaxK}

Specials == {NaN, Inf(0), Inf(1), Lit(0, 1, EMin), Lit(0, 2, EMin)}

Points == Grid \cup Specials

Typs == Grid \cup Specials

One == Lit(0, 1, 0)

Half == Lit(0, 1, -1)

\* for _i in 1..12
TestIterations == 11

NoResult == [tag |-> "None"]

VARIABLES
    op,       \* "idle", or the call made: "derivative", "nqn"; "test_nqn" in
              \* the test's loop, "panicked" once its unwrap() failed
    f,        \* the arguments of the call
    x,
    typ,
    h,        \* the step the call chose, NoStep when it chose none
    evals,    \* the points at which the call evaluated f, in order
    result,   \* the Result the call returned
    guess,    \* test_nqn: let mut guess
    iter      \* test_nqn: the iterations done

vars == <<op, f, x, typ, h, evals, result, guess, iter>>

\* a caller about to make one call with arguments of its choice
InitCall ==
    /\ op = "idle"
    /\ f \in Functions
    /\ x \in Points
    /\ typ \in Typs
    /\ guess = One
    /\ iter = 0

\* test_nqn about to enter its loop
InitTest ==
    /\ op = "test_nqn"
    /\ f = "sample_cubic"
    /\ x = One
    /\ typ = Half
    /\ guess = One
    /\ iter = 0

Init ==
    /\ InitCall \/ InitTest
    /\ h = NoStep
    /\ evals = <<>>
    /\ result = NoResult

\* the call returns: c is its Result, its step and its evaluations of f
Returns(c) ==
    /\ h' = c.h
    /\ evals' = c.evals
    /\ result' = c.res

\* derivative(f, x, typ)
Derivative ==
    /\ op = "idle"
    /\ Returns(derivative(f, x, typ))
    /\ op' = "derivative"
    /\ UNCHANGED <<f, x, typ, guess, iter>>

\* nqn(f, x, typ)
Nqn ==
    /\ op = "idle"
    /\ Returns(nqn(f, x, typ))
    /\ op' = "nqn"
    /\ UNCHANGED <<f, x, typ, guess, iter>>

\* one iteration of test_nqn: guess = nqn(sample_cubic, guess, 0.5).unwrap()
TestNqnStep ==
    /\ op = "test_nqn"
    /\ iter < TestIterations
    /\ Returns(nqn("sample_cubic", guess, Half))
    /\ guess' = IF IsOk(result') THEN result'.val ELSE guess
    /\ op' = IF IsOk(result') THEN "test_nqn" ELSE "panicked"
    /\ x' = guess
    /\ iter' = iter + 1
    /\ UNCHANGED <<f, typ>>

Next == Derivative \/ Nqn \/ TestNqnStep

Spec == Init /\ [][Next]_vars

(***************************************************************************)
(* The claims.                                                             *)
(***************************************************************************)
\* typ is exactly zero: +0.0 or -0.0
TypIsZero == typ.k = "fin" /\ typ.m = <<>>

\* the two results are the same: the same error, or values that are equal
\* as f64 compares them (==, under which +0.0 and -0.0 are equal) or both NaN
SameResult(r, q) ==
    \/ r.tag = "Err" /\ r = q
    \/ /\ IsOk(r) /\ IsOk(q)
       /\ (IsNaN(r.val) /\ IsNaN(q.val)) \/ FEq[r.val, q.val]

\* C1: derivative returns TypError if and only if typ is exactly zero; for
\* every other typ, however small and of either sign, it returns Ok
C1_TypErrorIffZero ==
    op = "derivative" =>
        /\ IsErr(result, "TypError") <=> TypIsZero
        /\ ~TypIsZero => IsOk(result)

\* derivative has accepted the smallest subnormal as well as a negative typ
C1_Witness ==
    /\ op = "derivative"
    /\ typ \in {Lit(0, 1, EMin), Lit(1, 1, -1)}
    /\ IsOk(result)

C3_TypErrorForwarded ==
    (op = "nqn" /\ TypIsZero) => IsErr(result, "TypError")

\* nqn has returned TypError for the constant function
C3_Witness ==
    /\ op = "nqn"
    /\ f = "constant"
    /\ TypIsZero
    /\ IsErr(result, "TypError")

\* x and typ are finite
FiniteArgs == x.k = "fin" /\ typ.k = "fin"

\* C4 as stated, in its part on constant functions, for finite x and finite
\* nonzero typ: nqn returns DerivativeZeroError for the constant function at
\* every x
C4_ConstantAlwaysZeroError ==
    (op = "nqn" /\ ~TypIsZero /\ FiniteArgs /\ f = "constant") =>
        IsErr(result, "DerivativeZeroError")

\* the step of the call is a number other than zero
StepUsable == h # NoStep /\ ~IsNaN(h) /\ ~IsZero(h)

\* C4, amended: for nonzero typ, nqn returns DerivativeZeroError if and only
\* if derivative succeeds with a value equal to zero, and it returns Ok only
\* when that value is nonzero; for the constant function it returns
\* DerivativeZeroError whenever the step h is neither zero nor NaN
C4_ZeroErrorIffZeroDerivative ==
    (op = "nqn" /\ ~TypIsZero) =>
        /\ \A d \in {derivative(f, x, typ).res} :
              /\ IsErr(result, "DerivativeZeroError")
                    <=> (IsOk(d) /\ FEq[d.val, FZero])
              /\ IsOk(result) => (IsOk(d) /\ ~FEq[d.val, FZero])
        /\ (f = "constant" /\ StepUsable) => IsErr(result, "DerivativeZeroError")

\* nqn has returned DerivativeZeroError for the constant function, at a
\* nonzero x with a negative typ
C4_Witness ==
    /\ op = "nqn"
    /\ f = "constant"
    /\ x = One
    /\ typ = Lit(1, 1, -1)
    /\ StepUsable
    /\ IsErr(result, "DerivativeZeroError")

\* C5: when typ is nonzero and derivative(f, x, typ) = Ok(d) with d nonzero,
\* nqn(f, x, typ) returns Ok(x - f(x)/d)
C5_NewtonIterate ==
    (op = "nqn" /\ ~TypIsZero) =>
        \A d \in {derivative(f, x, typ).res} :
            (IsOk(d) /\ ~FEq[d.val, FZero]) =>
                result = Ok(FSub[x, FDiv[Apply[f, x], d.val]])

\* nqn has returned a finite iterate other than x for the cubic
C5_Witness ==
    /\ op = "nqn"
    /\ f = "sample_cubic"
    /\ x = One
    /\ typ = Half
    /\ IsOk(result)
    /\ result.val.k = "fin"
    /\ result.val # x

\* C6: a call of derivative evaluates f not at all when typ is exactly zero,
\* and otherwise exactly twice: at x+h, then at x-h, h the step of the call
C6_DerivativeEvaluations ==
    op = "derivative" =>
        IF TypIsZero THEN evals = <<>>
        ELSE h # NoStep /\ evals = <<FAdd[x, h], FSub[x, h]>>

\* derivative has evaluated f at two different points
C6_Witness ==
    /\ op = "derivative"
    /\ ~TypIsZero
    /\ Len(evals) = 2
    /\ evals[1] # evals[2]

\* C7: a call of nqn evaluates f three times when it succeeds (at x+h, at
\* x-h, then at x), twice when it returns DerivativeZeroError (not at x), and
\* not at all when it returns TypError
C7_NqnEvaluations ==
    op = "nqn" =>
        /\ IsOk(result) =>
              h # NoStep /\ evals = <<FAdd[x, h], FSub[x, h], x>>
        /\ IsErr(result, "DerivativeZeroError") =>
              h # NoStep /\ evals = <<FAdd[x, h], FSub[x, h]>>
        /\ IsErr(result, "TypError") => evals = <<>>

\* nqn has returned DerivativeZeroError after two evaluations away from x
C7_Witness ==
    /\ op = "nqn"
    /\ IsErr(result, "DerivativeZeroError")
    /\ Len(evals) = 2
    /\ x \notin {evals[1], evals[2]}

\* a value v with lo < v < hi
Between(v, lo, hi) == FGt[v, lo] /\ FLt[v, hi]

\* C8: for the cubic and typ = 0.5 or -0.5, derivative at 1.0 lies in
\* (6.9, 7.1) and derivative at -1.0 lies in (-1.1, -0.9)
C8_CubicAccuracy ==
    (op = "derivative" /\ f = "sample_cubic" /\ typ \in {Half, FNeg[Half]}) =>
        /\ x = One =>
              IsOk(result) /\ Between(result.val, Dec(0, 69, 10), Dec(0, 71, 10))
        /\ x = FNeg[One] =>
              IsOk(result) /\ Between(result.val, Dec(1, 11, 10), Dec(1, 9, 10))

\* test_derivative_neg_negtyp's call has returned
C8_Witness ==
    /\ op = "derivative"
    /\ f = "sample_cubic"
    /\ x = FNeg[One]
    /\ typ = FNeg[Half]
    /\ IsOk(result)

\* C9: in test_nqn every one of the 11 steps succeeds and the guess after
\* the 11th lies in (0.4, 0.41)
C9_TestNqnConverges ==
    /\ op # "panicked"
    /\ (op = "test_nqn" /\ iter >= 1) => IsOk(result)
    /\ (op = "test_nqn" /\ iter = TestIterations) =>
          Between(guess, Dec(0, 4, 10), Dec(0, 41, 100))

\* test_nqn has done its 11 steps
C9_Witness ==
    /\ op = "test_nqn"
    /\ iter = TestIterations
    /\ result = Ok(guess)

\* the case of the claim's first branch: |x| > |typ|
XExceedsTyp == FGt[FAbs[x], FAbs[typ]]

====
